---- MODULE Spec2Model ----
(***************************************************************************)
(* Model of the two MCP client flows of the repository:                    *)
(*   check_mcp_health.main          (SSE-bootstrap flow)                   *)
(*   test_streamable_http           (Streamable-HTTP flow)                 *)
(* Text is a sequence of one-character strings, so that prefix tests,      *)
(* slicing, strip(), the session regular expression and json.loads are     *)
(* computed on characters as the Python code computes them.                *)
(***************************************************************************)
EXTENDS Integers, Sequences, FiniteSets, TLC

(***************************************************************************)
(* Bounds of the model.                                                    *)
(***************************************************************************)
\* lines the server delivers on one response stream before it ends
MaxLines == 3

(***************************************************************************)
(* Python text primitives.                                                 *)
(***************************************************************************)
\* characters str.strip() removes (no line terminator occurs inside a line)
Whitespace == {" ", "\t"}

\* s.startswith(p)
StartsWith(s, p) ==
    /\ Len(s) >= Len(p)
    /\ SubSeq(s, 1, Len(p)) = p

\* s[n:]
Slice(s, n) == SubSeq(s, n + 1, Len(s))

RECURSIVE LStrip(_)
LStrip(s) ==
    IF s # <<>> /\ Head(s) \in Whitespace THEN LStrip(Tail(s)) ELSE s

RECURSIVE RStrip(_)
RStrip(s) ==
    IF s # <<>> /\ s[Len(s)] \in Whitespace
    THEN RStrip(SubSeq(s, 1, Len(s) - 1))
    ELSE s

\* s.strip()
Strip(s) == RStrip(LStrip(s))

\* p occurs in s at index i (1-based)
OccursAt(s, p, i) ==
    /\ i >= 1
    /\ i + Len(p) - 1 <= Len(s)
    /\ SubSeq(s, i, i + Len(p) - 1) = p

\* p in s, for two strings
IsSubstring(p, s) == \E i \in 1..(Len(s) + 1) : OccursAt(s, p, i)

(***************************************************************************)
(* None / Some(x), as a sequence of at most one element.                   *)
(***************************************************************************)
None == <<>>
Some(x) == <<x>>

(***************************************************************************)
(* The session regular expression  sessionId=([a-zA-Z0-9_-]+)              *)
(***************************************************************************)
Lower == {"a","b","c","d","e","f","g","h","i","j","k","l","m",
          "n","o","p","q","r","s","t","u","v","w","x","y","z"}
Upper == {"A","B","C","D","E","F","G","H","I","J","K","L","M",
          "N","O","P","Q","R","S","T","U","V","W","X","Y","Z"}
Digit == {"0","1","2","3","4","5","6","7","8","9"}
\* the character class [a-zA-Z0-9_-]
TokenChar == Lower \cup Upper \cup Digit \cup {"_", "-"}

SessionKey == <<"s","e","s","s","i","o","n","I","d","=">>

\* the greedy run of class characters of s from index i
RECURSIVE TokenRun(_, _)
TokenRun(s, i) ==
    IF i <= Len(s) /\ s[i] \in TokenChar
    THEN <<s[i]>> \o TokenRun(s, i + 1)
    ELSE <<>>

\* the whole pattern matches at index i: the key, then one or more class characters
MatchesAt(s, i) ==
    /\ OccursAt(s, SessionKey, i)
    /\ i + Len(SessionKey) <= Len(s)
    /\ s[i + Len(SessionKey)] \in TokenChar

\* ReSearch with a lazy quantifier: group(1) is one character
ReSearchLazy(s) ==
    LET hits == {i \in 1..Len(s) : MatchesAt(s, i)}
    IN  IF hits = {}
        THEN None
        ELSE LET i == CHOOSE k \in hits : \A j \in hits : k <= j
             IN  Some(<<s[i + Len(SessionKey)]>>)

\* re.search(r'sessionId=([a-zA-Z0-9_-]+)', s): group(1) of the leftmost match, or None
ReSearch(s) ==
    LET hits == {i \in 1..Len(s) : MatchesAt(s, i)}
    IN  IF hits = {}
        THEN None
        ELSE LET i == CHOOSE k \in hits : \A j \in hits : k <= j
             IN  Some(TokenRun(s, i + Len(SessionKey)))

(***************************************************************************)
(* JSON values: [t |-> tag, v |-> value].                                  *)
(*   "null"  v = 0          "bool"  v \in BOOLEAN     "num"  v \in Int     *)
(*   "str"   v = characters "arr"   v = values        "obj"  v = members   *)
(* A member is [k |-> characters, v |-> value]; members keep the order of  *)
(* the text and the last of several equal keys is the one a lookup finds,  *)
(* as in a Python dict.                                                    *)
(***************************************************************************)
JNull == [t |-> "null", v |-> 0]
JBool(b) == [t |-> "bool", v |-> b]
JNum(n) == [t |-> "num", v |-> n]
JStr(s) == [t |-> "str", v |-> s]
JArr(xs) == [t |-> "arr", v |-> xs]
JObj(ms) == [t |-> "obj", v |-> ms]

(***************************************************************************)
(* json.loads, on the grammar the payloads use: objects, arrays, strings   *)
(* with the escapes \" \\ \/, integers, true, false, null, and blanks      *)
(* between tokens. A parse step returns [ok, v, n]: n is the index after   *)
(* the value.                                                              *)
(***************************************************************************)
JsonWs == {" ", "\t", "\n", "\r"}

PFail == [ok |-> FALSE, v |-> JNull, n |-> 0]
POk(val, next) == [ok |-> TRUE, v |-> val, n |-> next]

RECURSIVE SkipWs(_, _)
SkipWs(s, i) ==
    IF i <= Len(s) /\ s[i] \in JsonWs THEN SkipWs(s, i + 1) ELSE i

DigitValue(c) ==
    CASE c = "0" -> 0 [] c = "1" -> 1 [] c = "2" -> 2 [] c = "3" -> 3
      [] c = "4" -> 4 [] c = "5" -> 5 [] c = "6" -> 6 [] c = "7" -> 7
      [] c = "8" -> 8 [] c = "9" -> 9

\* the digits of s from index i, folded into acc
RECURSIVE ParseDigits(_, _, _)
ParseDigits(s, i, acc) ==
    IF i <= Len(s) /\ s[i] \in Digit
    THEN ParseDigits(s, i + 1, acc * 10 + DigitValue(s[i]))
    ELSE POk(JNum(acc), i)

\* -?(0|[1-9][0-9]*) ; a fraction or an exponent is outside the grammar modelled
ParseNumber(s, i) ==
    LET neg == s[i] = "-"
        j == IF neg THEN i + 1 ELSE i
    IN  IF j > Len(s) \/ s[j] \notin Digit
        THEN PFail
        ELSE LET r == IF s[j] = "0" THEN POk(JNum(0), j + 1) ELSE ParseDigits(s, j, 0)
             IN  IF r.n <= Len(s) /\ s[r.n] \in {".", "e", "E"}
                 THEN PFail
                 ELSE IF neg THEN POk(JNum(0 - r.v.v), r.n) ELSE r

\* the characters of a string literal whose opening quote is before index i
RECURSIVE ParseString(_, _, _)
ParseString(s, i, acc) ==
    IF i > Len(s)
    THEN PFail
    ELSE IF s[i] = "\""
    THEN POk(JStr(acc), i + 1)
    ELSE IF s[i] = "\\"
    THEN IF i + 1 <= Len(s) /\ s[i + 1] \in {"\"", "\\", "/"}
         THEN ParseString(s, i + 2, Append(acc, s[i + 1]))
         ELSE PFail
    ELSE IF s[i] = "\t"
    THEN PFail
    ELSE ParseString(s, i + 1, Append(acc, s[i]))

RECURSIVE ParseValue(_, _)
RECURSIVE ParseElements(_, _, _)
RECURSIVE ParseMembers(_, _, _)

\* the elements of an array after "[" or ",": i is at the next element
ParseElements(s, i, acc) ==
    LET e == ParseValue(s, i)
        j == SkipWs(s, e.n)
    IN  IF ~e.ok \/ j > Len(s)
        THEN PFail
        ELSE IF s[j] = "]"
        THEN POk(JArr(Append(acc, e.v)), j + 1)
        ELSE IF s[j] = ","
        THEN ParseElements(s, SkipWs(s, j + 1), Append(acc, e.v))
        ELSE PFail

\* the members of an object after "{" or ",": i is at the next key
ParseMembers(s, i, acc) ==
    IF i > Len(s) \/ s[i] # "\""
    THEN PFail
    ELSE LET k == ParseString(s, i + 1, <<>>)
             c == SkipWs(s, k.n)
         IN  IF ~k.ok \/ c > Len(s) \/ s[c] # ":"
             THEN PFail
             ELSE LET e == ParseValue(s, SkipWs(s, c + 1))
                      j == SkipWs(s, e.n)
                      ms == Append(acc, [k |-> k.v.v, v |-> e.v])
                  IN  IF ~e.ok \/ j > Len(s)
                      THEN PFail
                      ELSE IF s[j] = "}"
                      THEN POk(JObj(ms), j + 1)
                      ELSE IF s[j] = ","
                      THEN ParseMembers(s, SkipWs(s, j + 1), ms)
                      ELSE PFail

ParseValue(s, i) ==
    IF i > Len(s)
    THEN PFail
    ELSE IF s[i] = "{"
    THEN LET j == SkipWs(s, i + 1)
         IN  IF j <= Len(s) /\ s[j] = "}"
             THEN POk(JObj(<<>>), j + 1)
             ELSE ParseMembers(s, j, <<>>)
    ELSE IF s[i] = "["
    THEN LET j == SkipWs(s, i + 1)
         IN  IF j <= Len(s) /\ s[j] = "]"
             THEN POk(JArr(<<>>), j + 1)
             ELSE ParseElements(s, j, <<>>)
    ELSE IF s[i] = "\""
    THEN ParseString(s, i + 1, <<>>)
    ELSE IF s[i] \in Digit \cup {"-"}
    THEN ParseNumber(s, i)
    ELSE IF OccursAt(s, <<"t","r","u","e">>, i)
    THEN POk(JBool(TRUE), i + 4)
    ELSE IF OccursAt(s, <<"f","a","l","s","e">>, i)
    THEN POk(JBool(FALSE), i + 5)
    ELSE IF OccursAt(s, <<"n","u","l","l">>, i)
    THEN POk(JNull, i + 4)
    ELSE PFail

\* json.loads(s): ok = FALSE stands for json.JSONDecodeError
JsonLoads(s) ==
    LET r == ParseValue(s, SkipWs(s, 1))
    IN  IF r.ok /\ SkipWs(s, r.n) = Len(s) + 1
        THEN [ok |-> TRUE, v |-> r.v]
        ELSE [ok |-> FALSE, v |-> JNull]


(***************************************************************************)
(* Python operations on decoded JSON. An operation that raises is modelled *)
(* by the name of the exception it raises.                                 *)
(***************************************************************************)
\* bool(x)
Truthy(x) ==
    CASE x.t = "null" -> FALSE
      [] x.t = "bool" -> x.v
      [] x.t = "num" -> x.v # 0
      [] OTHER -> Len(x.v) > 0

\* the object has the key
HasKey(x, key) == \E i \in 1..Len(x.v) : x.v[i].k = key

\* d[key] for a key the object has: the last member of that key
Lookup(x, key) ==
    LET i == CHOOSE k \in 1..Len(x.v) :
                 /\ x.v[k].k = key
                 /\ \A j \in (k + 1)..Len(x.v) : x.v[j].k # key
    IN  x.v[i].v

\* `key in x` raises TypeError unless x is a dict, a list or a str
InRaises(x) == x.t \in {"null", "bool", "num"}

\* `key in x` for a str key: dict key, list element or substring
In(key, x) ==
    CASE x.t = "obj" -> HasKey(x, key)
      [] x.t = "arr" -> \E i \in 1..Len(x.v) : x.v[i].t = "str" /\ x.v[i].v = key
      [] x.t = "str" -> IsSubstring(key, x.v)
      [] OTHER -> FALSE

\* x.get(key, default): only a dict has .get
Get(x, key, default) == IF HasKey(x, key) THEN Lookup(x, key) ELSE default

\* the exception x[0] raises for a truthy x, "" when it raises none
Subscript0Raises(x) ==
    CASE x.t = "obj" -> "KeyError"
      [] x.t \in {"bool", "num", "null"} -> "TypeError"
      [] OTHER -> ""

\* x[0] for a non-empty list or str
Subscript0(x) == IF x.t = "str" THEN JStr(<<x.v[1]>>) ELSE x.v[1]

KeyResult == <<"r","e","s","u","l","t">>
KeyContent == <<"c","o","n","t","e","n","t">>
KeyText == <<"t","e","x","t">>

(***************************************************************************)
(* What one decode of a data payload ends in.                              *)
(*   decoded: the object decoded from the envelope's text was printed      *)
(*   outer:   the outer decoded message was printed                        *)
(*   raw:     the payload text was printed as it came                      *)
(*   raise:   an exception other than JSONDecodeError left the try block   *)
(***************************************************************************)
Decoded(v) == [kind |-> "decoded", json |-> v, text |-> <<>>, exc |-> ""]
Outer(v) == [kind |-> "outer", json |-> v, text |-> <<>>, exc |-> ""]
Raw(data) == [kind |-> "raw", json |-> JNull, text |-> data, exc |-> ""]
Raise(e) == [kind |-> "raise", json |-> JNull, text |-> <<>>, exc |-> e]

\* DecodeText without the second json.loads: the text itself is printed
DecodeTextUndecoded(data, text) ==
    IF text.t # "str" THEN Raise("TypeError") ELSE Decoded(text)

\* json.loads(text_content) and the print of the health data; a JSONDecodeError
\* here is caught by the same handler as the outer decode and prints the raw payload
DecodeText(data, text) ==
    IF text.t # "str"
    THEN Raise("TypeError")
    ELSE LET inner == JsonLoads(text.v)
         IN  IF inner.ok THEN Decoded(inner.v) ELSE Raw(data)

\* content[0].get("text", "") and what follows, for a truthy content
UnwrapContent(data, rj, content) ==
    IF Subscript0Raises(content) # ""
    THEN Raise(Subscript0Raises(content))
    ELSE IF Subscript0(content).t # "obj"
    THEN Raise("AttributeError")
    ELSE LET text == Get(Subscript0(content), KeyText, JStr(<<>>))
         IN  IF Truthy(text) THEN DecodeText(data, text) ELSE Outer(rj)

\* check_mcp_health.main, the try block of the response loop
SseDecode(data) ==
    LET parsed == JsonLoads(data)
        rj == parsed.v
    IN  IF ~parsed.ok
        THEN Raw(data)
        ELSE IF InRaises(rj)
        THEN Raise("TypeError")
        ELSE IF ~In(KeyResult, rj)
        THEN Outer(rj)
        ELSE IF rj.t # "obj"
        THEN Raise("TypeError")
        ELSE LET result == Lookup(rj, KeyResult)
             IN  IF ~(result.t = "arr" /\ Len(result.v) > 0)
                 THEN Outer(rj)
                 ELSE IF result.v[1].t # "obj"
                 THEN Raise("AttributeError")
                 ELSE LET content == Get(result.v[1], KeyContent, JArr(<<>>))
                      IN  IF Truthy(content)
                          THEN UnwrapContent(data, rj, content)
                          ELSE Outer(rj)

\* test_streamable_http, the inner try block of the tool response loop
ToolDecode(data) ==
    LET parsed == JsonLoads(data)
        rj == parsed.v
    IN  IF ~parsed.ok
        THEN Raw(data)
        ELSE IF InRaises(rj)
        THEN Raise("TypeError")
        ELSE IF ~In(KeyResult, rj)
        THEN Outer(rj)
        ELSE IF rj.t # "obj"
        THEN Raise("TypeError")
        ELSE LET result == Lookup(rj, KeyResult)
             IN  IF ~(result.t = "arr" /\ Len(result.v) > 0)
                 THEN Outer(rj)
                 ELSE IF result.v[1].t # "obj"
                 THEN Raise("AttributeError")
                 ELSE LET content == Get(result.v[1], KeyContent, JArr(<<>>))
                      IN  IF Truthy(content) /\ content.t = "arr"
                          THEN UnwrapContent(data, rj, content)
                          ELSE Outer(rj)

(***************************************************************************)
(* Line prefixes and the payloads the modelled server can send.            *)
(***************************************************************************)
DataPrefix == <<"d","a","t","a",":">>
DataSpacePrefix == <<"d","a","t","a",":"," ">>
EventPrefix == <<"e","v","e","n","t",":">>
Message == <<"m","e","s","s","a","g","e">>
Done == <<"[","D","O","N","E","]">>

\* /message?sessionId=abc-123_XYZ
PSession ==
    <<"/","m","e","s","s","a","g","e","?","s","e","s","s","i","o","n","I","d","=","a","b","c","-","1","2","3","_","X","Y","Z">>

\* sessionId=&sessionId=a1
PSessionSecond ==
    <<"s","e","s","s","i","o","n","I","d","=","&","s","e","s","s","i","o","n","I","d","=","a","1">>

\* {"id":1,"result":[{"content":[{"text":"{\"status\":\"ok\"}"}]}]}
PEnvelope ==
    <<"{","\"","i","d","\"",":","1",",","\"","r","e","s","u","l","t","\"",":","[","{","\"","c","o","n","t","e","n","t","\"",":","[","{","\"","t","e","x","t","\"",":","\"","{","\\","\"","s","t","a","t","u","s","\\","\"",":","\\","\"","o","k","\\","\"","}","\"","}","]","}","]","}">>

\* {"id":1,"result":{}}
PResultObject ==
    <<"{","\"","i","d","\"",":","1",",","\"","r","e","s","u","l","t","\"",":","{","}","}">>

\* {"method":"m"}
PNotification ==
    <<"{","\"","m","e","t","h","o","d","\"",":","\"","m","\"","}">>

\* {"id":1,"result":[]}
PResultEmpty ==
    <<"{","\"","i","d","\"",":","1",",","\"","r","e","s","u","l","t","\"",":","[","]","}">>

\* {"id":1,"result":[1]}
PResultScalarItem ==
    <<"{","\"","i","d","\"",":","1",",","\"","r","e","s","u","l","t","\"",":","[","1","]","}">>

\* {"id":1,"result":[{"content":[{"text":"x"}]}]}
PTextNotJson ==
    <<"{","\"","i","d","\"",":","1",",","\"","r","e","s","u","l","t","\"",":","[","{","\"","c","o","n","t","e","n","t","\"",":","[","{","\"","t","e","x","t","\"",":","\"","x","\"","}","]","}","]","}">>

\* {"id":1,"result":[{"content":[{}]}]}
PTextMissing ==
    <<"{","\"","i","d","\"",":","1",",","\"","r","e","s","u","l","t","\"",":","[","{","\"","c","o","n","t","e","n","t","\"",":","[","{","}","]","}","]","}">>

\* {"id":1,"result":[{"content":[{"text":""}]}]}
PTextEmpty ==
    <<"{","\"","i","d","\"",":","1",",","\"","r","e","s","u","l","t","\"",":","[","{","\"","c","o","n","t","e","n","t","\"",":","[","{","\"","t","e","x","t","\"",":","\"","\"","}","]","}","]","}">>

\* {"id":1,"result":[{"content":{"a":1}}]}
PContentObject ==
    <<"{","\"","i","d","\"",":","1",",","\"","r","e","s","u","l","t","\"",":","[","{","\"","c","o","n","t","e","n","t","\"",":","{","\"","a","\"",":","1","}","}","]","}">>

\* 0
PScalar ==
    <<"0">>

\* ping
PNotJson ==
    <<"p","i","n","g">>

\* {"id":1,"result":{}} sent as two data lines of one block
PHead ==
    <<"{","\"","i","d","\"",":","1",",">>
PTail ==
    <<"\"","r","e","s","u","l","t","\"",":","{","}","}">>

\* the line `data: <payload>`
DataLine(payload) == DataSpacePrefix \o payload
\* the line `event: <type>`
EventLine(type) == EventPrefix \o <<" ">> \o type

Blank == <<>>
Comment == <<":"," ","k","a">>
EventMessage == EventLine(Message)
EventEndpoint == EventLine(<<"e","n","d","p","o","i","n","t">>)

\* lines of the bootstrap part of the GET /sse stream
BootstrapLines ==
    { Blank, Comment, EventEndpoint,
      DataLine(PSession), DataLine(PSessionSecond),
      DataLine(PNotJson), DataPrefix \o PSession }

\* payloads of a tool-call response
Payloads ==
    { PEnvelope, PResultObject, PNotification, PResultEmpty, PResultScalarItem,
      PTextNotJson, PTextMissing, PTextEmpty, PContentObject, PScalar, PNotJson,
      PHead, PTail, Done, <<>> }

\* lines of a response stream: blank, comment and event lines, `event:message`
\* and a data line without the blank after the colon, `data: [DONE] ` with blanks
\* after the sentinel, and a data line of each payload
ResponseLines ==
    { Blank, Comment, EventMessage, EventEndpoint, EventPrefix \o Message,
      DataPrefix \o PResultObject, DataLine(Done \o <<" ">>) }
        \cup { DataLine(p) : p \in Payloads }

\* lines of the initialize response stream
InitLines ==
    { Blank, EventMessage, DataPrefix \o PResultObject,
      DataLine(Done), DataLine(<<>>),
      DataLine(PResultObject), DataLine(PScalar), DataLine(PNotJson) }

\* values of the Mcp-Session-Id response header: absent, empty, a session id
HeaderValues == { None, Some(<<>>), Some(<<"s","1">>) }

\* how an HTTP request ends: a 2xx response, a response of another status,
\* or a requests.exceptions.RequestException
Outcomes == { "ok", "status", "exception" }

(***************************************************************************)
(* State.                                                                  *)
(*   flow               which program runs: "sse" or "streamable"          *)
(*   pc                 where the run is                                   *)
(*   rc                 the value returned, NoRc before the return         *)
(*   session_id         None or Some(text)                                 *)
(*   response_received  the flag of the SSE response loop                  *)
(*   init_response      None or Some(decoded initialize response)          *)
(*   sent               the requests issued so far, in order               *)
(*   header             the Mcp-Session-Id header of the initialize response*)
(*   loop               the for loop that ran last, "" before the first    *)
(*   lines              the lines that loop has read                       *)
(*   eof                that loop ended because its stream ended           *)
(*   out                None or Some(what the decode of the payload ended in)*)
(*   exc                the exception that ended the run, "" when none     *)
(*   results            how each request of sent ended, in the same order  *)
(*   open_streams       the streaming responses (stream=True) that were    *)
(*                      opened and neither read to their end nor closed    *)
(***************************************************************************)
VARIABLES flow, pc, rc, session_id, response_received, init_response,
          sent, header, loop, lines, eof, out, exc, results, open_streams

vars == <<flow, pc, rc, session_id, response_received, init_response,
          sent, header, loop, lines, eof, out, exc, results, open_streams>>

NoRc == -1

Request(name, sid) == [name |-> name, sid |-> sid]

\* `if session_id:` / `if not session_id:`
SessionTruthy(sid) == sid # None /\ sid[1] # <<>>

Init ==
    /\ flow \in {"sse", "streamable"}
    /\ pc = IF flow = "sse" THEN "get" ELSE "initialize"
    /\ rc = NoRc
    /\ session_id = None
    /\ response_received = FALSE
    /\ init_response = None
    /\ sent = <<>>
    /\ header = None
    /\ loop = ""
    /\ lines = <<>>
    /\ eof = FALSE
    /\ out = None
    /\ exc = ""
    /\ results = <<>>
    /\ open_streams = {}

\* the streams open after a request with stream=True that ended as o: a response
\* object exists, unread, unless the request itself raised
Opened(name, o) ==
    IF o = "exception" THEN open_streams ELSE open_streams \cup {name}

\* return n
Return(n) ==
    /\ pc' = "returned"
    /\ rc' = n

(***************************************************************************)
(* SSE flow: check_mcp_health.main                                         *)
(***************************************************************************)
\* requests.get(.../sse, stream=True) and raise_for_status()
SseConnect ==
    /\ pc = "get"
    /\ sent' = Append(sent, Request("GET /sse", None))
    /\ \E o \in Outcomes :
          /\ results' = Append(results, o)
          /\ open_streams' = Opened("sse_response", o)
          /\ IF o = "ok"
             THEN /\ pc' = "resolve"
                  /\ loop' = "resolve"
                  /\ UNCHANGED <<rc, exc>>
             ELSE /\ Return(1)
                  /\ exc' = "RequestException"
                  /\ UNCHANGED loop
    /\ UNCHANGED <<flow, session_id, response_received, init_response,
                   header, lines, eof, out>>

\* the session id a bootstrap line yields, None when the loop goes on
SessionOf(line) ==
    IF line # <<>> /\ StartsWith(line, DataPrefix)
    THEN ReSearch(Strip(Slice(line, 5)))
    ELSE None

\* one iteration of the session loop
SseResolveLine ==
    /\ pc = "resolve"
    /\ Len(lines) < MaxLines
    /\ \E line \in BootstrapLines :
          /\ lines' = Append(lines, line)
          /\ session_id' = SessionOf(line)
          /\ pc' = IF SessionOf(line) # None THEN "post" ELSE "resolve"
    /\ UNCHANGED <<flow, rc, response_received, init_response, sent, header,
                   loop, eof, out, exc>>
    /\ UNCHANGED <<results, open_streams>>

\* SseResolveEnd without the test of lines 46-48: the run goes on to the POST
SseResolveEndProceeds ==
    /\ pc = "resolve"
    /\ eof' = TRUE
    /\ pc' = "post"
    /\ UNCHANGED <<flow, rc, session_id, response_received, init_response, sent,
                   header, loop, lines, out, exc, results>>
    /\ open_streams' = open_streams \ {"sse_response"}

\* the bootstrap stream ends before a session id was found
SseResolveEnd ==
    /\ pc = "resolve"
    /\ eof' = TRUE
    /\ IF SessionTruthy(session_id)
       THEN pc' = "post" /\ UNCHANGED rc
       ELSE Return(1)
    /\ UNCHANGED <<flow, session_id, response_received, init_response, sent,
                   header, loop, lines, out, exc, results>>
    /\ open_streams' = open_streams \ {"sse_response"}

\* requests.post(.../message?sessionId=<session_id>); its status is only printed
SsePost ==
    /\ pc = "post"
    /\ sent' = Append(sent, Request("POST /message", session_id))
    /\ \E o \in Outcomes :
          /\ results' = Append(results, o)
          /\ IF o = "exception"
             THEN /\ Return(1)
                  /\ exc' = "RequestException"
                  /\ UNCHANGED <<response_received, loop, lines>>
             ELSE /\ pc' = "respond"
                  /\ response_received' = FALSE
                  /\ loop' = "respond"
                  /\ lines' = <<>>
                  /\ UNCHANGED <<rc, exc>>
    /\ UNCHANGED <<flow, session_id, init_response, header, eof, out,
                   open_streams>>

\* SseTakes without `and response_received`
SseTakesUngated(line, received) ==
    /\ line # <<>>
    /\ ~StartsWith(line, EventPrefix)
    /\ StartsWith(line, DataPrefix)
    /\ Strip(Slice(line, 5)) # <<>>
    /\ Strip(Slice(line, 5)) # Done

\* SseTakes without the [DONE] test
SseTakesDone(line, received) ==
    /\ line # <<>>
    /\ ~StartsWith(line, EventPrefix)
    /\ StartsWith(line, DataPrefix)
    /\ received
    /\ Strip(Slice(line, 5)) # <<>>

\* the response loop takes the line as the response
SseTakes(line, received) ==
    /\ line # <<>>
    /\ ~StartsWith(line, EventPrefix)
    /\ StartsWith(line, DataPrefix)
    /\ received
    /\ Strip(Slice(line, 5)) # <<>>
    /\ Strip(Slice(line, 5)) # Done

\* SseReceived with the flag set by an event line of any type
SseReceivedAnyEvent(line, received) ==
    IF line # <<>> /\ StartsWith(line, EventPrefix) THEN TRUE ELSE received

\* SseReceived with the flag following the type of the latest event line
SseReceivedReset(line, received) ==
    IF line # <<>> /\ StartsWith(line, EventPrefix)
    THEN Strip(Slice(line, 6)) = Message
    ELSE received

\* the flag after the line
SseReceived(line, received) ==
    IF /\ line # <<>>
       /\ StartsWith(line, EventPrefix)
       /\ Strip(Slice(line, 6)) = Message
    THEN TRUE
    ELSE received

\* one iteration of the response loop
SseRespondLine ==
    /\ pc = "respond"
    /\ Len(lines) < MaxLines
    /\ \E line \in ResponseLines :
          /\ lines' = Append(lines, line)
          /\ response_received' = SseReceived(line, response_received)
          /\ IF SseTakes(line, response_received)
             THEN LET r == SseDecode(Strip(Slice(line, 5)))
                  IN  IF r.kind = "raise"
                      THEN /\ pc' = "raised"
                           /\ exc' = r.exc
                           /\ UNCHANGED <<rc, out>>
                      ELSE /\ Return(0)
                           /\ out' = Some(r)
                           /\ UNCHANGED exc
             ELSE UNCHANGED <<pc, rc, out, exc>>
    /\ UNCHANGED <<flow, session_id, init_response, sent, header, loop, eof>>
    /\ UNCHANGED <<results, open_streams>>

\* the stream ends: "No response received (timeout)"
SseRespondEnd ==
    /\ pc = "respond"
    /\ eof' = TRUE
    /\ Return(1)
    /\ UNCHANGED <<flow, session_id, response_received, init_response, sent,
                   header, loop, lines, out, exc, results>>
    /\ open_streams' = open_streams \ {"sse_response"}

(***************************************************************************)
(* Streamable flow: test_streamable_http                                   *)
(***************************************************************************)
\* the data payload the streamable loops take from the line, None when they skip it
StreamablePayload(line) ==
    IF /\ StartsWith(line, DataSpacePrefix)
       /\ Slice(line, 6) # <<>>
       /\ Slice(line, 6) # Done
    THEN Some(Slice(line, 6))
    ELSE None

\* requests.post(initialize), raise_for_status(), the Mcp-Session-Id header
Initialize ==
    /\ pc = "initialize"
    /\ sent' = Append(sent, Request("initialize", None))
    /\ \E o \in Outcomes :
          /\ results' = Append(results, o)
          /\ open_streams' = Opened("response", o)
          /\ IF o = "ok"
             THEN \E h \in HeaderValues :
                     /\ header' = h
                     /\ session_id' = h
                     /\ pc' = "init_read"
                     /\ loop' = "init_read"
                     /\ UNCHANGED <<rc, exc>>
             ELSE /\ Return(1)
                  /\ exc' = "RequestException"
                  /\ UNCHANGED <<header, session_id, loop>>
    /\ UNCHANGED <<flow, response_received, init_response, lines, eof, out>>

\* one iteration of the initialize loop; a JSONDecodeError reaches `except Exception`
InitReadLine ==
    /\ pc = "init_read"
    /\ Len(lines) < MaxLines
    /\ \E line \in InitLines :
          /\ lines' = Append(lines, line)
          /\ IF StreamablePayload(line) = None
             THEN UNCHANGED <<pc, rc, init_response, exc>>
             ELSE LET parsed == JsonLoads(StreamablePayload(line)[1])
                  IN  IF ~parsed.ok
                      THEN /\ Return(1)
                           /\ exc' = "JSONDecodeError"
                           /\ UNCHANGED init_response
                      ELSE /\ init_response' = Some(parsed.v)
                           /\ UNCHANGED exc
                           /\ IF Truthy(parsed.v)
                              THEN pc' = "notify" /\ UNCHANGED rc
                              ELSE Return(1)
    /\ UNCHANGED <<flow, session_id, response_received, sent, header, loop,
                   eof, out>>
    /\ UNCHANGED <<results, open_streams>>

\* InitReadEnd without the test of lines 79-81: the run goes on to the notify
InitReadEndProceeds ==
    /\ pc = "init_read"
    /\ eof' = TRUE
    /\ pc' = "notify"
    /\ UNCHANGED <<flow, rc, session_id, response_received, init_response, sent,
                   header, loop, lines, out, exc, results>>
    /\ open_streams' = open_streams \ {"response"}

\* the initialize stream ends: "No initialize response received"
InitReadEnd ==
    /\ pc = "init_read"
    /\ eof' = TRUE
    /\ Return(1)
    /\ UNCHANGED <<flow, session_id, response_received, init_response, sent,
                   header, loop, lines, out, exc, results>>
    /\ open_streams' = open_streams \ {"response"}

\* SessionHeader with the session header left out
SessionHeaderDropped(sid) == None

\* the headers of the notify and the tools/call requests
SessionHeader(sid) == IF SessionTruthy(sid) THEN sid ELSE None

\* requests.post(notifications/initialized); an exception is printed and the run goes on
Notify ==
    /\ pc = "notify"
    /\ sent' = Append(sent, Request("notify", SessionHeader(session_id)))
    /\ \E o \in Outcomes :
          /\ results' = Append(results, o)
          /\ pc' = "call"
    /\ UNCHANGED <<flow, rc, session_id, response_received, init_response,
                   header, loop, lines, eof, out, exc, open_streams>>

\* Call with a retry: a failed tools/call POST is sent again
CallRetries ==
    /\ pc = "call"
    /\ sent' = Append(sent, Request("call", SessionHeader(session_id)))
    /\ \E o \in Outcomes :
          /\ results' = Append(results, o)
          /\ open_streams' = Opened("tool_response", o)
          /\ IF o = "ok"
             THEN /\ pc' = "call_read"
                  /\ loop' = "call_read"
                  /\ lines' = <<>>
             ELSE /\ pc' = "call"
                  /\ UNCHANGED <<loop, lines>>
    /\ UNCHANGED <<flow, rc, session_id, response_received, init_response,
                   header, eof, out, exc>>

\* requests.post(tools/call, stream=True) and raise_for_status()
Call ==
    /\ pc = "call"
    /\ sent' = Append(sent, Request("call", SessionHeader(session_id)))
    /\ \E o \in Outcomes :
          /\ results' = Append(results, o)
          /\ open_streams' = Opened("tool_response", o)
          /\ IF o = "ok"
             THEN /\ pc' = "call_read"
                  /\ loop' = "call_read"
                  /\ lines' = <<>>
                  /\ UNCHANGED <<rc, exc>>
             ELSE /\ Return(1)
                  /\ exc' = "RequestException"
                  /\ UNCHANGED <<loop, lines>>
    /\ UNCHANGED <<flow, session_id, response_received, init_response,
                   header, eof, out>>

\* one iteration of the tool response loop; after a break the run returns 0,
\* an exception other than JSONDecodeError reaches `except Exception`
CallReadLine ==
    /\ pc = "call_read"
    /\ Len(lines) < MaxLines
    /\ \E line \in ResponseLines :
          /\ lines' = Append(lines, line)
          /\ IF StreamablePayload(line) = None
             THEN UNCHANGED <<pc, rc, out, exc>>
             ELSE LET r == ToolDecode(StreamablePayload(line)[1])
                  IN  IF r.kind = "raise"
                      THEN /\ Return(1)
                           /\ exc' = r.exc
                           /\ UNCHANGED out
                      ELSE /\ Return(0)
                           /\ out' = Some(r)
                           /\ UNCHANGED exc
    /\ UNCHANGED <<flow, session_id, response_received, init_response, sent,
                   header, loop, eof>>
    /\ UNCHANGED <<results, open_streams>>

\* the tool stream ends without a break: "Test Complete!", return 0
CallReadEnd ==
    /\ pc = "call_read"
    /\ eof' = TRUE
    /\ Return(0)
    /\ UNCHANGED <<flow, session_id, response_received, init_response, sent,
                   header, loop, lines, out, exc, results>>
    /\ open_streams' = open_streams \ {"tool_response"}

Next ==
    \/ SseConnect
    \/ SseResolveLine
    \/ SseResolveEnd
    \/ SsePost
    \/ SseRespondLine
    \/ SseRespondEnd
    \/ Initialize
    \/ InitReadLine
    \/ InitReadEnd
    \/ Notify
    \/ Call
    \/ CallReadLine
    \/ CallReadEnd

Spec == Init /\ [][Next]_vars

(***************************************************************************)
(* The SSE flow against a bootstrap stream that does not end.  The loop of *)
(* lines 35-44 has no counter and no clock: it reads for as long as lines  *)
(* arrive (timeout=5 only limits the wait for the next bytes).  Here lines *)
(* holds the last MaxLines lines read.  The program is one thread of       *)
(* blocking calls, so it takes its next step whenever one is possible.     *)
(***************************************************************************)
InitLive == Init /\ flow = "sse"

\* for line in sse_response.iter_lines(), past the first MaxLines lines
SseResolveLineMore ==
    /\ pc = "resolve"
    /\ Len(lines) = MaxLines
    /\ \E line \in BootstrapLines :
          /\ lines' = Append(Tail(lines), line)
          /\ session_id' = SessionOf(line)
          /\ pc' = IF SessionOf(line) # None THEN "post" ELSE "resolve"
    /\ UNCHANGED <<flow, rc, response_received, init_response, sent, header,
                   loop, eof, out, exc, results, open_streams>>

NextLive ==
    \/ SseConnect
    \/ SseResolveLine
    \/ SseResolveLineMore
    \/ SseResolveEnd
    \/ SsePost
    \/ SseRespondLine
    \/ SseRespondEnd

LiveSpec == InitLive /\ [][NextLive]_vars /\ WF_vars(NextLive)

(***************************************************************************)
(* Vocabulary of the properties. These definitions say what the claims     *)
(* mean by their words; none of them is used by an action.                 *)
(***************************************************************************)
\* the run is over: main returned, or an exception left it
Finished == pc \in {"returned", "raised"}

\* the last line the running loop has read
LastLine == lines[Len(lines)]

\* the loop named l is the one that ran last and it ran without a failed request
InLoop(l) == loop = l /\ exc # "RequestException"

\* the loop named l ended at the last line it read, not at the end of its stream
EndedAtLine(l) == InLoop(l) /\ Finished /\ ~eof /\ lines # <<>>

\* an `event:` line whose trimmed value is `message`
IsMessageEvent(line) ==
    /\ StartsWith(line, EventPrefix)
    /\ Strip(Slice(line, Len(EventPrefix))) = Message

\* a message event is among the first n lines read
MessageEventWithin(n) == \E j \in 1..n : IsMessageEvent(lines[j])

\* the data payload of a line as each flow reads it, None for a line that is no data line
SseData(line) ==
    IF StartsWith(line, DataPrefix) THEN Some(Strip(Slice(line, 5))) ELSE None
StreamableData(line) ==
    IF StartsWith(line, DataSpacePrefix) THEN Some(Slice(line, 6)) ELSE None
FlowData(line) == IF flow = "sse" THEN SseData(line) ELSE StreamableData(line)

\* a payload that is non-empty and not the sentinel
Meaningful(d) == d # None /\ d[1] # <<>> /\ d[1] # Done

\* the loop that reads the tool-call response in the running flow
ResponseLoop == IF flow = "sse" THEN "respond" ELSE "call_read"

\* the correlator took the payload of the last line read as the response
Took == EndedAtLine(ResponseLoop) /\ Meaningful(FlowData(LastLine))
TakenData == FlowData(LastLine)[1]

----------------------------------------------------------------------------
\* C1: SSE flow. When the response loop has read no `event: message` line, the run
\* has not returned 0, has printed no response and has raised nothing, whatever
\* data lines it read; and when the stream has ended in that situation the run
\* has returned 1.
C1_NoMessageEventExitsOne ==
    (flow = "sse" /\ InLoop("respond") /\ ~MessageEventWithin(Len(lines)))
        => /\ rc # 0
           /\ out = None
           /\ pc # "raised"
           /\ eof => (pc = "returned" /\ rc = 1)

\* the stream ended with no message event, after a data line with a complete envelope
C1_Witness ==
    /\ flow = "sse"
    /\ InLoop("respond")
    /\ eof
    /\ ~MessageEventWithin(Len(lines))
    /\ \E i \in 1..Len(lines) : lines[i] = DataLine(PEnvelope)
    /\ rc = 1

----------------------------------------------------------------------------
\* the notify and tools/call requests issued so far
SessionRequests == {i \in 1..Len(sent) : sent[i].name \in {"notify", "call"}}

\* C2 as stated: the session id is the header of the initialize response; when the
\* header is present notify and call carry exactly its value, when it is absent
\* they carry none.
C2_HeaderReplayedWhenPresent ==
    (flow = "streamable" /\ pc # "initialize")
        => /\ session_id = header
           /\ \A i \in SessionRequests :
                 IF header # None THEN sent[i].sid = header ELSE sent[i].sid = None

\* C2 amended: the session id is the header of the initialize response and never
\* changes; when the header is present and not empty, notify and call carry
\* exactly its value; when it is absent or empty they carry no session header;
\* and once an initialize response was accepted, notify and call are sent in that
\* order whatever the header was.
C2_HeaderReplayedWhenNonEmpty ==
    (flow = "streamable" /\ pc # "initialize")
        => /\ session_id = header
           /\ \A i \in SessionRequests :
                 IF header # None /\ header[1] # <<>>
                 THEN sent[i].sid = header
                 ELSE sent[i].sid = None
           /\ (init_response # None /\ Truthy(init_response[1]) /\ Finished)
                 => /\ Len(sent) = 3
                    /\ sent[2].name = "notify"
                    /\ sent[3].name = "call"

\* a session id arrived and the tools/call request carried it
C2_Witness ==
    /\ flow = "streamable"
    /\ header = Some(<<"s","1">>)
    /\ Len(sent) = 3
    /\ sent[2] = Request("notify", header)
    /\ sent[3] = Request("call", header)

----------------------------------------------------------------------------
\* the indices of s at which `sessionId=` occurs
KeyPositions(s) == {i \in 1..Len(s) : OccursAt(s, SessionKey, i)}

\* the maximal run of characters of [A-Za-z0-9_-] of s that starts at index i
RunAt(s, i) ==
    LET n == CHOOSE n \in 0..(Len(s) + 1 - i) :
                 /\ \A k \in i..(i + n - 1) : s[k] \in TokenChar
                 /\ (i + n > Len(s) \/ s[i + n] \notin TokenChar)
    IN  SubSeq(s, i, i + n - 1)

\* the run that follows the occurrence of `sessionId=` at index i
RunAfterKey(s, i) == RunAt(s, i + Len(SessionKey))

\* the least element of a non-empty set of indices
Least(S) == CHOOSE i \in S : \A j \in S : i <= j

\* a `data:` line in which `sessionId=` is followed by at least one character of the class
HasSessionMatch(line) ==
    /\ StartsWith(line, DataPrefix)
    /\ \E i \in KeyPositions(Slice(line, 5)) : RunAfterKey(Slice(line, 5), i) # <<>>

\* the session loop has resolved a session id from the last line it read
Resolved == flow = "sse" /\ loop = "resolve" /\ session_id # None

\* C3 as stated: the resolved session id is the maximal run that follows the FIRST
\* occurrence of `sessionId=` in the first data line with a match.
C3_RunAfterFirstOccurrence ==
    Resolved =>
        LET d == Slice(LastLine, 5)
        IN  /\ HasSessionMatch(LastLine)
            /\ session_id = Some(RunAfterKey(d, Least(KeyPositions(d))))

\* C3 amended: the resolved session id is the maximal run of [A-Za-z0-9_-] that
\* follows the first occurrence of `sessionId=` that is immediately followed by at
\* least one such character, in the first `data:` line containing such an
\* occurrence; every line read before it is a non-data line or a data line
\* without one; the loop stops at that line; and
\* `data: /message?sessionId=abc-123_XYZ` resolves to exactly `abc-123_XYZ`.
C3_RunAfterFirstMatch ==
    (flow = "sse" /\ loop = "resolve")
        => /\ \A j \in 1..Len(lines) :
                 HasSessionMatch(lines[j]) => (j = Len(lines) /\ session_id # None)
           /\ session_id # None =>
                 LET d == Slice(LastLine, 5)
                     hits == {i \in KeyPositions(d) : RunAfterKey(d, i) # <<>>}
                 IN  /\ HasSessionMatch(LastLine)
                     /\ session_id = Some(RunAfterKey(d, Least(hits)))
                     /\ LastLine = DataLine(PSession) =>
                           session_id = Some(<<"a","b","c","-","1","2","3","_","X","Y","Z">>)

\* the example of the specification, resolved after a non-data line and a data
\* line without a match were skipped
C3_Witness ==
    /\ Resolved
    /\ Len(lines) = 3
    /\ lines[1] = EventEndpoint
    /\ lines[2] = DataLine(PNotJson)
    /\ lines[3] = DataLine(PSession)
    /\ session_id = Some(<<"a","b","c","-","1","2","3","_","X","Y","Z">>)

----------------------------------------------------------------------------
\* the payload decodes to an object whose `result` is a non-empty sequence, whose
\* first element is an object with a non-empty sequence `content`, whose first
\* element is an object with a non-empty string `text` that is valid JSON
WellFormedEnvelope(d) ==
    LET rj == JsonLoads(d).v
        result == Lookup(rj, KeyResult)
        content == Lookup(result.v[1], KeyContent)
        text == Lookup(content.v[1], KeyText)
    IN  /\ JsonLoads(d).ok
        /\ rj.t = "obj" /\ HasKey(rj, KeyResult)
        /\ result.t = "arr" /\ result.v # <<>>
        /\ result.v[1].t = "obj" /\ HasKey(result.v[1], KeyContent)
        /\ content.t = "arr" /\ content.v # <<>>
        /\ content.v[1].t = "obj" /\ HasKey(content.v[1], KeyText)
        /\ text.t = "str" /\ text.v # <<>>
        /\ JsonLoads(text.v).ok

\* the `text` of a well-formed envelope
EnvelopeText(d) ==
    Lookup(Lookup(Lookup(JsonLoads(d).v, KeyResult).v[1], KeyContent).v[1], KeyText).v

\* C4: both flows. When the payload taken as the response is a well-formed
\* envelope, the run returns 0 and what it printed is the object decoded from
\* `text`, not the outer message.
C4_EnvelopeUnwrapped ==
    (Took /\ WellFormedEnvelope(TakenData))
        => /\ pc = "returned"
           /\ rc = 0
           /\ out # None
           /\ out[1].kind = "decoded"
           /\ out[1].json = JsonLoads(EnvelopeText(TakenData)).v

\* the envelope of the specification was taken and {"status":"ok"} came out
C4_Witness ==
    /\ Took
    /\ TakenData = PEnvelope
    /\ out = Some(Decoded(JObj(<<[k |-> <<"s","t","a","t","u","s">>,
                                  v |-> JStr(<<"o","k">>)]>>)))
    /\ rc = 0

----------------------------------------------------------------------------
\* the decoded payload
Decode(d) == JsonLoads(d).v

\* the payload decodes to JSON that has no `result`, or whose `result` is not a
\* sequence, or is an empty sequence
OuterMismatch(d) ==
    /\ JsonLoads(d).ok
    /\ \/ ~(Decode(d).t = "obj" /\ HasKey(Decode(d), KeyResult))
       \/ Lookup(Decode(d), KeyResult).t # "arr"
       \/ Lookup(Decode(d), KeyResult).v = <<>>

\* C5: both flows. When the payload taken as the response decodes to JSON that has
\* no `result`, or whose `result` is a plain object, another non-sequence or an empty
\* sequence, the run returns 0 and what it printed is the outer decoded message.
C5_OuterFallback ==
    (Took /\ OuterMismatch(TakenData))
        => /\ pc = "returned"
           /\ rc = 0
           /\ out # None
           /\ out[1].kind = "outer"
           /\ out[1].json = Decode(TakenData)

----------------------------------------------------------------------------
\* the payload decodes to an object whose `result` is a non-empty sequence, and the
\* shape mismatches deeper down
InnerMismatch(d) ==
    /\ JsonLoads(d).ok
    /\ Decode(d).t = "obj" /\ HasKey(Decode(d), KeyResult)
    /\ Lookup(Decode(d), KeyResult).t = "arr"
    /\ Lookup(Decode(d), KeyResult).v # <<>>
    /\ ~WellFormedEnvelope(d)

\* C6: both flows. When the payload taken as the response has a non-empty sequence
\* `result` and mismatches deeper down, no exception ends the decode and what is
\* printed is the outer decoded message.
C6_InnerFallback ==
    (Took /\ InnerMismatch(TakenData))
        => /\ pc = "returned"
           /\ exc = ""
           /\ out # None
           /\ out[1].kind = "outer"
           /\ out[1].json = Decode(TakenData)

----------------------------------------------------------------------------
\* line i of the response loop carries a payload the correlator may take: a
\* non-empty payload other than [DONE], in the SSE flow after a message event
Eligible(i) ==
    /\ Meaningful(FlowData(lines[i]))
    /\ flow = "sse" => MessageEventWithin(i - 1)

\* what the decode of the running flow makes of a payload
FlowDecode(d) == IF flow = "sse" THEN SseDecode(d) ELSE ToolDecode(d)

----------------------------------------------------------------------------
\* C8: SSE flow. The response loop never ends at a `data:` line that was read
\* before the first `event: message` line, whatever its payload: the line is
\* passed and the loop goes on.
C8_DataBeforeMessageEventSkipped ==
    (flow = "sse" /\ InLoop("respond"))
        => \A i \in 1..Len(lines) :
              (SseData(lines[i]) # None /\ ~MessageEventWithin(i - 1))
                  => /\ ~(i = Len(lines) /\ Finished /\ ~eof)
                     /\ i = Len(lines) => (out = None /\ rc # 0)

\* a valid response read before the message event was passed, and the envelope
\* read after it was taken
C8_Witness ==
    /\ flow = "sse"
    /\ InLoop("respond")
    /\ Len(lines) = 3
    /\ lines[1] = DataLine(PResultObject)
    /\ IsMessageEvent(lines[2])
    /\ lines[3] = DataLine(PEnvelope)
    /\ out # None
    /\ out[1].kind = "decoded"

----------------------------------------------------------------------------
KeyId == <<"i","d">>
KeyError == <<"e","r","r","o","r">>

\* the payload is a JSON-RPC response: an object with `id` and with `result` or
\* `error`, not both
ValidResponse(d) ==
    /\ JsonLoads(d).ok
    /\ Decode(d).t = "obj"
    /\ HasKey(Decode(d), KeyId)
    /\ HasKey(Decode(d), KeyResult) # HasKey(Decode(d), KeyError)

\* C9: both flows. The run returns 0 only if the payload taken from the tool-call
\* response stream is a JSON-RPC response, and when that stream ends without one
\* the run returns a non-zero code.
C9_ExitZeroOnlyOnResponse ==
    /\ (Finished /\ rc = 0) => (Took /\ ValidResponse(TakenData))
    /\ (InLoop(ResponseLoop) /\ eof) => (pc = "returned" /\ rc = 1)

----------------------------------------------------------------------------
\* C10: Streamable flow. In the initialize loop and in the tool response loop, when
\* the first non-empty payload that is not [DONE] is not valid JSON, the run does
\* not return 1 and no exception ends the step; in the tool response loop the raw
\* text is what is printed.
C10_ParseFailurePassThrough ==
    (/\ flow = "streamable"
     /\ loop \in {"init_read", "call_read"}
     /\ InLoop(loop)
     /\ lines # <<>>
     /\ Meaningful(StreamableData(LastLine))
     /\ ~JsonLoads(StreamableData(LastLine)[1]).ok)
        => /\ rc # 1
           /\ exc = ""
           /\ loop = "call_read" => out = Some(Raw(StreamableData(LastLine)[1]))

----------------------------------------------------------------------------
\* The requests of the run that ended in a transport failure: an exception raised
\* by the request (connection error, timeout) or a non-2xx status.
FailedRequests == {i \in 1..Len(results) : results[i] # "ok"}

\* C11: both flows. A transport failure of any request makes the run return a
\* non-zero code at once: the failed request is the last one sent, and the run has
\* returned, so no stream is read after it.
C11_TransportFailureAborts ==
    \A i \in FailedRequests :
        /\ i = Len(sent)
        /\ pc = "returned"
        /\ rc # 0

----------------------------------------------------------------------------
\* C12: SSE flow. Session resolution does not hang: whatever lines the bootstrap
\* stream delivers, the run eventually leaves the resolution loop, with a session
\* id or with the "no session" failure.
C12_ResolutionEnds == <>(pc \notin {"get", "resolve"})

----------------------------------------------------------------------------
\* C13: both flows. When the run has ended, on whatever path, every streaming
\* response that was opened has been read to the end of its stream or closed.
C13_StreamsReleasedOnExit == Finished => open_streams = {}

----------------------------------------------------------------------------
\* The block of the last line read: the lines after the last blank line before it.
BlockStart ==
    LET blanks == {j \in 1..(Len(lines) - 1) : lines[j] = Blank}
    IN  IF blanks = {} THEN 1
        ELSE (CHOOSE j \in blanks : \A k \in blanks : k <= j) + 1

\* texts joined by newlines
RECURSIVE JoinLines(_)
JoinLines(texts) ==
    IF texts = <<>> THEN <<>>
    ELSE IF Len(texts) = 1 THEN texts[1]
    ELSE texts[1] \o <<"\n">> \o JoinLines(Tail(texts))

\* the remainders of the data lines among lines[i..n], in order
RECURSIVE DataFrom(_, _)
DataFrom(i, n) ==
    IF i > n THEN <<>>
    ELSE IF FlowData(lines[i]) = None THEN DataFrom(i + 1, n)
    ELSE <<FlowData(lines[i])[1]>> \o DataFrom(i + 1, n)

\* the data of the block of the last line read, as far as it was read
BlockData == JoinLines(DataFrom(BlockStart, Len(lines)))

\* C14: both flows. What the run decodes as the response is the data of the whole
\* block: the remainders of all the data lines of the block the response was taken
\* from, joined by newlines, and not the remainder of one line of it.
C14_WholeBlockDecoded ==
    Took => LET r == FlowDecode(BlockData)
            IN  IF r.kind = "raise"
                THEN out = None /\ exc = r.exc
                ELSE out = Some(r) /\ exc = ""

----------------------------------------------------------------------------
\* the names of the requests sent so far, in order
SentNames == [i \in 1..Len(sent) |-> sent[i].name]

\* s is an initial part of t
IsPrefix(s, t) == Len(s) <= Len(t) /\ s = SubSeq(t, 1, Len(s))

SseOrder == <<"GET /sse", "POST /message">>

\* C15: SSE flow. The requests are GET /sse then one POST /message and nothing
\* else; session resolution runs after the GET and before the POST, the response
\* is read after the POST; the POST is sent only with a resolved, non-empty
\* session id and its URL carries exactly that id; a bootstrap stream that ends
\* without a session id makes the run return 1 with no POST sent; the run returns
\* 0 only after the POST.
C15_SseOrdering ==
    flow = "sse"
        => /\ IsPrefix(SentNames, SseOrder)
           /\ pc = "get" => sent = <<>>
           /\ pc \in {"resolve", "post"} => Len(sent) = 1
           /\ pc = "post" => SessionTruthy(session_id)
           /\ pc = "respond" => Len(sent) = 2
           /\ loop = "respond" => Len(sent) = 2
           /\ pc = "post" => (lines # <<>> /\ session_id = SessionOf(LastLine))
           /\ Len(sent) = 2
                 => (SessionTruthy(session_id) /\ sent[2].sid = session_id)
           /\ (loop = "resolve" /\ eof)
                 => (pc = "returned" /\ rc = 1 /\ Len(sent) = 1)
           /\ rc = 0 => (Len(sent) = 2 /\ loop = "respond")

\* a run that resolved the id abc-123_XYZ, posted with it and returned 0
C15_Witness ==
    /\ flow = "sse"
    /\ rc = 0
    /\ Len(sent) = 2
    /\ sent[2] = Request("POST /message", Some(<<"a","b","c","-","1","2","3","_","X","Y","Z">>))

----------------------------------------------------------------------------
StreamableOrder == <<"initialize", "notify", "call">>

\* the requests of the running flow, in the order of the code
FlowOrder == IF flow = "sse" THEN SseOrder ELSE StreamableOrder

\* C16: both flows. Whatever the outcomes of the requests, the requests sent are
\* an initial part of the flow's fixed sequence: GET /sse, POST /message in the
\* SSE flow and initialize, notify, tools/call in the Streamable flow, each at
\* most once.
C16_NoRetry ==
    /\ IsPrefix(SentNames, FlowOrder)
    /\ Len(results) = Len(sent)

\* a Streamable run whose notify and tools/call both failed: three requests sent
C16_Witness ==
    /\ flow = "streamable"
    /\ Finished
    /\ SentNames = StreamableOrder
    /\ results = <<"ok", "exception", "status">>

----------------------------------------------------------------------------
\* no line read so far in the running loop carries a payload that is non-empty
\* and not [DONE]
NoPayloadSoFar == \A i \in 1..Len(lines) : ~Meaningful(StreamableData(lines[i]))

\* C17: Streamable flow. As long as the initialize stream has delivered no
\* non-empty payload other than [DONE], only the initialize request has been
\* sent; and when the stream ends in that state the run returns 1, so neither the
\* notify POST nor the tools/call POST is ever sent.
C17_NoInitializeResponse ==
    (flow = "streamable" /\ InLoop("init_read"))
        => /\ NoPayloadSoFar
                 => /\ pc \in {"init_read", "returned"}
                    /\ SentNames = <<"initialize">>
                    /\ init_response = None
           /\ eof => /\ NoPayloadSoFar
                     /\ pc = "returned"
                     /\ rc = 1
                     /\ SentNames = <<"initialize">>

\* the initialize stream delivered an event line, `data: [DONE]` and an empty
\* payload, then ended
C17_Witness ==
    /\ flow = "streamable"
    /\ loop = "init_read"
    /\ eof
    /\ lines = <<EventMessage, DataLine(Done), DataLine(<<>>)>>
    /\ rc = 1

----------------------------------------------------------------------------
\* line i of the response loop starts with `data:` and its trimmed remainder is a
\* payload (non-empty, not [DONE]) that the loop is ready to take
DataLineWithPayload(i) ==
    /\ Meaningful(SseData(lines[i]))
    /\ flow = "sse" => MessageEventWithin(i - 1)

\* C18: both flows. A line that starts with `data:`, with or without a blank after
\* the colon, is a data line in the SSE flow and in the Streamable flow alike: in
\* either response loop such a line with a payload is where the loop ends.
C18_SameDataLines ==
    InLoop(ResponseLoop)
        => \A i \in 1..Len(lines) :
              DataLineWithPayload(i) => (i = Len(lines) /\ Finished /\ ~eof)

----------------------------------------------------------------------------
\* C19: SSE flow. In the response phase response_received is true exactly when an
\* `event:` line whose trimmed value is `message` has been read: it starts false,
\* no other line sets it, and no blank line or event line of another type resets
\* it; so every data line with a payload read after the first message event ends
\* the loop, whatever the event type of its own block.
C19_FlagSetOnceByMessageEvent ==
    (flow = "sse" /\ InLoop("respond"))
        => /\ response_received = MessageEventWithin(Len(lines))
           /\ \A i \in 1..Len(lines) :
                 (MessageEventWithin(i - 1) /\ Meaningful(SseData(lines[i])))
                     => (i = Len(lines) /\ Finished /\ ~eof /\ response_received)

\* a message event, then an event of another type, then the response: taken
C19_Witness ==
    /\ flow = "sse"
    /\ loop = "respond"
    /\ lines = <<EventMessage, EventEndpoint, DataLine(PResultObject)>>
    /\ response_received
    /\ rc = 0

====
